---- MODULE Spec2Model ----
(***************************************************************************)
(* A model of PyRedis (src/pyredis.py): an in-memory key-value store with  *)
(* per-key TTL, lazy expiration on get, and whole-state JSON snapshots.    *)
(*                                                                         *)
(* Strings are sequences of one-character strings, so that the pair        *)
(* decoding of set (str.split) is computed and not assumed.  A Python dict *)
(* is a TLA+ function whose DOMAIN is the set of keys present.  An         *)
(* optional value (None or a value) is a set with at most one element.     *)
(* time.time() is a read of the clock `now`, which may have advanced since *)
(* the previous read and never goes back.                                  *)
(***************************************************************************)
EXTENDS Integers, Sequences, FiniteSets, TLC

VARIABLES
    store,              \* self.store: key -> value
    expirations,        \* self.expirations: key -> absolute expiry time
    auto_save_enabled,  \* self.auto_save_enabled
    expiration_time,    \* self.expiration_time: the default TTL
    savefile_path,      \* PyRedisCLI.savefile_path: the path of SAVE and LOAD
    disk,               \* the file system: path -> file content
    now,                \* the wall clock
    last,               \* the last call: its arguments, result and diagnostics
    threads             \* the calls in progress in two threads, if any

vars == <<store, expirations, auto_save_enabled, expiration_time,
          savefile_path, disk, now, last, threads>>

----------------------------------------------------------------------------
(* Bounds *)

\* The clock runs from 0 to MaxTime.
MaxTime == 1

\* The default TTL of the constructor: expiration_time=365 * 24 * 60 * 60,
\* scaled to the model's clock.
DefaultTTL == 1

\* The longest pair string whose decoding is enumerated.
MaxStrLen == 5

----------------------------------------------------------------------------
(* Strings and optional values *)

None == {}
Some(v) == {v}

\* The pair strings handed to set: "a x", "a, x y", "b x" decode into a key
\* and a value; "a,x" is one token.
PairAX == <<"a", " ", "x">>
PairAXY == <<"a", ",", " ", "x", " ", "y">>
PairBX == <<"b", " ", "x">>
PairOneToken == <<"a", ",", "x">>

Pairs == {PairAX, PairAXY, PairBX, PairOneToken}

KeyA == <<"a">>
KeyB == <<"b">>
Keys == {KeyA, KeyB}

\* A batch: the *key_values of one set call, one pair string or two.
Batches == {<<p>> : p \in Pairs} \cup {<<p, q>> : p \in Pairs, q \in Pairs}

\* The ttl argument of set: None or an explicit number.
TTLArgs == {None, Some(0 - 1), Some(0), Some(1)}

\* ", " in kv
HasCommaSpace(kv) ==
    \E i \in 1..(Len(kv) - 1) : kv[i] = "," /\ kv[i + 1] = " "

\* kv.split(", "): every occurrence of the separator cuts, empty tokens kept.
RECURSIVE SplitCommaSpace(_, _, _)
SplitCommaSpace(s, cur, acc) ==
    IF s = <<>> THEN Append(acc, cur)
    ELSE IF Len(s) >= 2 /\ s[1] = "," /\ s[2] = " "
         THEN SplitCommaSpace(SubSeq(s, 3, Len(s)), <<>>, Append(acc, cur))
         ELSE SplitCommaSpace(Tail(s), Append(cur, Head(s)), acc)

\* kv.split(): runs of whitespace cut, no empty token.
RECURSIVE SplitWhitespace(_, _, _)
SplitWhitespace(s, cur, acc) ==
    IF s = <<>> THEN (IF cur = <<>> THEN acc ELSE Append(acc, cur))
    ELSE IF Head(s) = " "
         THEN SplitWhitespace(Tail(s), <<>>,
                              IF cur = <<>> THEN acc ELSE Append(acc, cur))
         ELSE SplitWhitespace(Tail(s), Append(cur, Head(s)), acc)

\* A variant of SplitPair that always splits on whitespace.
SplitPairOnWhitespace(kv) == SplitWhitespace(kv, <<>>, <<>>)

\* kv.split(", ") if ", " in kv else kv.split()
SplitPair(kv) ==
    IF HasCommaSpace(kv) THEN SplitCommaSpace(kv, <<>>, <<>>)
    ELSE SplitWhitespace(kv, <<>>, <<>>)

\* Every string of at most MaxStrLen characters over a letter, the comma and
\* the space, as a pair argument of set.
Alphabet == {"a", ",", " "}
Strings == UNION {[1..n -> Alphabet] : n \in 0..MaxStrLen}

\* cmd_vals.split(','): every comma cuts, empty items kept.
RECURSIVE SplitComma(_, _, _)
SplitComma(s, cur, acc) ==
    IF s = <<>> THEN Append(acc, cur)
    ELSE IF Head(s) = ","
         THEN SplitComma(Tail(s), <<>>, Append(acc, cur))
         ELSE SplitComma(Tail(s), Append(cur, Head(s)), acc)

\* s.strip()
Strip(s) ==
    LET keep == {i \in 1..Len(s) : s[i] # " "}
    IN  IF keep = {} THEN <<>>
        ELSE SubSeq(s, CHOOSE i \in keep : \A j \in keep : i <= j,
                       CHOOSE i \in keep : \A j \in keep : j <= i)

\* int(s) of a stripped string: an optional sign and decimal digits, or
\* ValueError.
DigitValue == [c \in {"0", "1", "2"} |-> IF c = "0" THEN 0 ELSE IF c = "1" THEN 1 ELSE 2]

Unsigned(s) == IF s # <<>> /\ Head(s) \in {"-", "+"} THEN Tail(s) ELSE s

IsInt(s) ==
    /\ Unsigned(s) # <<>>
    /\ \A i \in 1..Len(Unsigned(s)) : Unsigned(s)[i] \in DOMAIN DigitValue

RECURSIVE Decimal(_, _)
Decimal(s, acc) ==
    IF s = <<>> THEN acc ELSE Decimal(Tail(s), 10 * acc + DigitValue[Head(s)])

IntOf(s) ==
    IF s # <<>> /\ Head(s) = "-" THEN 0 - Decimal(Unsigned(s), 0)
    ELSE Decimal(Unsigned(s), 0)

\* [kv.strip() for kv in cmd_vals.strip().split(',')]
CliItemsOf(cmd_vals) ==
    LET items == SplitComma(Strip(cmd_vals), <<>>, <<>>)
    IN  [i \in 1..Len(items) |-> Strip(items[i])]

\* What is typed after SET at the prompt: "a x", "b x", "a x, 1",
\* "a x, b x", "a x,b x", "a x, b x, 1", "a x, b x, 0", "a x, b x, -1",
\* "a x, b x, a x", "1" and " ".
CommaSpace == <<",", " ">>
CliLines ==
    {PairAX, PairBX,
     PairAX \o CommaSpace \o <<"1">>,
     PairAX \o CommaSpace \o PairBX,
     PairAX \o <<",">> \o PairBX,
     PairAX \o CommaSpace \o PairBX \o CommaSpace \o <<"1">>,
     PairAX \o CommaSpace \o PairBX \o CommaSpace \o <<"0">>,
     PairAX \o CommaSpace \o PairBX \o CommaSpace \o <<"-", "1">>,
     PairAX \o CommaSpace \o PairBX \o CommaSpace \o PairAX,
     <<"1">>, <<" ">>}

\* The tokens of a pair string; those of the pairs in Pairs are tabulated.
Tokens == [kv \in Pairs |-> SplitPair(kv)]
TokensOf(kv) == IF kv \in Pairs THEN Tokens[kv] ELSE SplitPair(kv)

\* key, value = ... raises ValueError unless there are exactly two tokens.
Unpacks(kv) == Len(TokensOf(kv)) = 2

----------------------------------------------------------------------------
(* Dicts *)

EmptyDict == [k \in {} |-> 0]

\* d[k] = v
DictSet(d, k, v) == [x \in DOMAIN d \cup {k} |-> IF x = k THEN v ELSE d[x]]

\* del d[k]
DictDel(d, k) == [x \in DOMAIN d \ {k} |-> d[x]]

\* d.get(k)
DictGet(d, k) == IF k \in DOMAIN d THEN Some(d[k]) ELSE None

----------------------------------------------------------------------------
(* The snapshot file *)

DefaultFilename == "pyredis_dump.json"
OtherFilename == "other.json"
Paths == {DefaultFilename, OtherFilename}

\* json.dump of a dict: a JSON object, the set of its members.
JsonObject(d) == {<<k, d[k]>> : k \in DOMAIN d}

\* json.load of a JSON object: the dict of its members.
JsonDict(o) == [k \in {m[1] : m \in o} |-> (CHOOSE m \in o : m[1] = k)[2]]

NoFile == [kind |-> "absent", has |-> {}, store |-> {}, expirations |-> {}]

\* A file that is not JSON.
NotJson == [kind |-> "garbage", has |-> {}, store |-> {}, expirations |-> {}]

\* A path that open() cannot open for writing or reading: a directory is
\* there, and open raises IsADirectoryError (an OSError).
Directory == [kind |-> "directory", has |-> {}, store |-> {}, expirations |-> {}]

\* A JSON file whose top-level object has the fields `has`.
JsonFile(has, st, ex) ==
    [kind |-> "json", has |-> has,
     store |-> IF "store" \in has THEN st ELSE {},
     expirations |-> IF "expirations" \in has THEN ex ELSE {}]

\* A variant of Snapshot that leaves out the keys expired at the clock.
SnapshotLiveOnly(st, ex) ==
    LET live == {k \in DOMAIN st : ~(k \in DOMAIN ex /\ now > ex[k])}
    IN  JsonFile({"store", "expirations"},
                 {<<k, st[k]>> : k \in live},
                 {<<k, ex[k]>> : k \in live \cap DOMAIN ex})

\* A variant of Snapshot that writes the keys but not their expiry times.
SnapshotStoreOnly(st, ex) ==
    JsonFile({"store", "expirations"}, JsonObject(st), {})

\* json.dump({"store": self.store, "expirations": self.expirations}, f)
Snapshot(st, ex) ==
    JsonFile({"store", "expirations"}, JsonObject(st), JsonObject(ex))

\* Files written by hand: corrupt ones, and snapshots in the documented
\* format whose two key sets differ.
HandWritten ==
    { NotJson,
      JsonFile({"expirations"}, {}, {<<KeyA, 0>>}),
      JsonFile({"store"}, {<<KeyB, <<"x">>>>}, {}),
      JsonFile({"store", "expirations"}, {<<KeyA, <<"x">>>>}, {}),
      JsonFile({"store", "expirations"}, {}, {<<KeyA, 0>>}) }

----------------------------------------------------------------------------
(* The record of the last call *)

Call(op, key, batch, ttl, ret, raised, out) ==
    [op |-> op, key |-> key, batch |-> batch, ttl |-> ttl,
     ret |-> ret, raised |-> raised, out |-> out]

NoCall(op) == Call(op, {}, <<>>, None, None, "none", <<>>)

\* time.time(): the clock now or one tick later.
ClockReads == {t \in now..(now + 1) : t <= MaxTime}

----------------------------------------------------------------------------
(* PyRedis *)

\* The state after PyRedis.__init__, with the CLI's savefile_path `path`.
\* No thread is inside a call: every call runs to its end on its own.
NoThreads ==
    [th |-> <<>>,
     start |-> [store |-> EmptyDict, expirations |-> EmptyDict],
     interleaved |-> FALSE]

InitWith(path) ==
    /\ threads = NoThreads
    /\ store = EmptyDict
    /\ expirations = EmptyDict
    /\ auto_save_enabled \in BOOLEAN
    /\ expiration_time = DefaultTTL
    /\ savefile_path = path
    /\ disk = [p \in Paths |-> NoFile]
    /\ now = 0
    /\ last = NoCall("init")

\* A variant of _is_expired that reads a missing expiry as 0
\* (self.expirations.get(key, 0)).
IsExpiredMissingAsZero(ex, key, t) ==
    t > (IF key \in DOMAIN ex THEN ex[key] ELSE 0)

\* A variant of _is_expired that counts the expiry instant itself as expired.
IsExpiredAtDeadline(ex, key, t) ==
    IF key \notin DOMAIN ex THEN FALSE ELSE t >= ex[key]

\* _is_expired(key) at clock reading t
_is_expired(ex, key, t) ==
    IF key \notin DOMAIN ex THEN FALSE ELSE t > ex[key]

\* A variant of SetPair that keeps the expiry a key already has.
SetPairKeepExpiry(st, ex, ttl, kv, t) ==
    IF Unpacks(kv)
    THEN LET key == TokensOf(kv)[1]
             value == TokensOf(kv)[2]
             ttl1 == IF ttl = None THEN Some(expiration_time) ELSE ttl
             secs == CHOOSE x \in ttl1 : TRUE
         IN  [store |-> DictSet(st, key, value),
              expirations |-> IF key \in DOMAIN ex THEN ex
                              ELSE DictSet(ex, key, t + secs),
              ttl |-> ttl1,
              out |-> <<"SET">>]
    ELSE [store |-> st, expirations |-> ex, ttl |-> ttl,
          out |-> <<"Error: Invalid format">>]

\* A variant of SetPair that takes a ttl of 0 for a missing one (`if not ttl`).
SetPairFalsyTTL(st, ex, ttl, kv, t) ==
    IF Unpacks(kv)
    THEN LET key == TokensOf(kv)[1]
             value == TokensOf(kv)[2]
             ttl1 == IF ttl = None \/ ttl = Some(0)
                     THEN Some(expiration_time) ELSE ttl
             secs == CHOOSE x \in ttl1 : TRUE
         IN  [store |-> DictSet(st, key, value),
              expirations |-> DictSet(ex, key, t + secs),
              ttl |-> ttl1,
              out |-> <<"SET">>]
    ELSE [store |-> st, expirations |-> ex, ttl |-> ttl,
          out |-> <<"Error: Invalid format">>]

\* The body of set's loop for one pair, at clock reading t.  st, ex and ttl
\* are the two dicts and the local ttl before the pair.
SetPair(st, ex, ttl, kv, t) ==
    IF Unpacks(kv)
    THEN LET key == TokensOf(kv)[1]
             value == TokensOf(kv)[2]
             ttl1 == IF ttl = None THEN Some(expiration_time) ELSE ttl
             secs == CHOOSE x \in ttl1 : TRUE
         IN  [store |-> DictSet(st, key, value),
              expirations |-> DictSet(ex, key, t + secs),
              ttl |-> ttl1,
              out |-> <<"SET">>]
    ELSE [store |-> st, expirations |-> ex, ttl |-> ttl,
          out |-> <<"Error: Invalid format">>]

\* A variant of SetLoop whose first malformed pair ends the loop.
RECURSIVE SetLoopAbortOnError(_, _, _, _, _, _)
SetLoopAbortOnError(st, ex, ttl, key_values, ts, i) ==
    IF i > Len(key_values)
    THEN [store |-> st, expirations |-> ex, out |-> <<>>]
    ELSE IF ~Unpacks(key_values[i])
    THEN [store |-> st, expirations |-> ex, out |-> <<"Error: Invalid format">>]
    ELSE LET one == SetPair(st, ex, ttl, key_values[i], ts[i])
             rest == SetLoopAbortOnError(one.store, one.expirations, one.ttl,
                                         key_values, ts, i + 1)
         IN  [rest EXCEPT !.out = one.out \o rest.out]

\* set's loop over key_values[i..]; ts[i] is the clock reading of pair i.
RECURSIVE SetLoop(_, _, _, _, _, _)
SetLoop(st, ex, ttl, key_values, ts, i) ==
    IF i > Len(key_values)
    THEN [store |-> st, expirations |-> ex, out |-> <<>>]
    ELSE LET one == SetPair(st, ex, ttl, key_values[i], ts[i])
             rest == SetLoop(one.store, one.expirations, one.ttl,
                             key_values, ts, i + 1)
         IN  [rest EXCEPT !.out = one.out \o rest.out]

\* The body of save: open(filename, "w"); json.dump(...)
\* it writes the snapshot, or raises at open and writes nothing.
CanWrite(d, filename) == d[filename].kind # "directory"

SaveTo(d, filename, st, ex) ==
    IF CanWrite(d, filename) THEN [d EXCEPT ![filename] = Snapshot(st, ex)] ELSE d

SaveRaised(d, filename) == IF CanWrite(d, filename) THEN "none" ELSE "OSError"

SaveOut(d, filename) == IF CanWrite(d, filename) THEN <<"Data saved">> ELSE <<>>

\* A variant of AutoSave that saves whatever the flag says.
AutoSaveAlways(d, st, ex) == SaveTo(d, DefaultFilename, st, ex)

\* if self.auto_save_enabled: self.save()
AutoSave(d, st, ex) ==
    IF auto_save_enabled THEN SaveTo(d, DefaultFilename, st, ex) ELSE d

AutoSaveOut == IF auto_save_enabled THEN SaveOut(disk, DefaultFilename) ELSE <<>>

\* A variant of AutoSaveRaised in which the auto-save swallows its error
\* (try: self.save() except OSError: pass).
AutoSaveSwallowsError(d) == "none"

\* What the auto-save raises into set, delete and get.
AutoSaveRaised(d) ==
    IF auto_save_enabled THEN SaveRaised(d, DefaultFilename) ELSE "none"

\* A variant of DeleteKey that drops every expiry with the key.
DeleteKeyClearsExpirations(st, ex, key) ==
    IF key \in DOMAIN st
    THEN [store |-> DictDel(st, key), expirations |-> EmptyDict,
          out |-> <<"DELETE">>]
    ELSE [store |-> st, expirations |-> ex,
          out |-> <<"DELETE: key does not exist">>]

\* A variant of DeleteKey that leaves the key's expiry behind.
DeleteKeyStoreOnly(st, ex, key) ==
    IF key \in DOMAIN st
    THEN [store |-> DictDel(st, key), expirations |-> ex, out |-> <<"DELETE">>]
    ELSE [store |-> st, expirations |-> ex,
          out |-> <<"DELETE: key does not exist">>]

\* The mutation of delete.
DeleteKey(st, ex, key) ==
    IF key \in DOMAIN st
    THEN [store |-> DictDel(st, key),
          expirations |-> IF key \in DOMAIN ex THEN DictDel(ex, key) ELSE ex,
          out |-> <<"DELETE">>]
    ELSE [store |-> st, expirations |-> ex,
          out |-> <<"DELETE: key does not exist">>]

\* The clock readings of one set call: one per pair, never going back.
BatchReads(n) ==
    {ts \in [1..n -> ClockReads] : \A i \in 1..n, j \in 1..n : i <= j => ts[i] <= ts[j]}

set(key_values, ttl) ==
    \E ts \in BatchReads(Len(key_values)) :
        LET r == SetLoop(store, expirations, ttl, key_values, ts, 1)
        IN  /\ store' = r.store
            /\ expirations' = r.expirations
            /\ disk' = AutoSave(disk, r.store, r.expirations)
            /\ now' = ts[Len(key_values)]
            /\ last' = Call("set", {}, key_values, ttl, None,
                            AutoSaveRaised(disk), r.out \o AutoSaveOut)
            /\ UNCHANGED <<threads, auto_save_enabled, expiration_time, savefile_path>>

\* The CLI's SET branch on the text after the command word, with the loop's
\* except Exception around it.
cli_set(cmd_vals) ==
    LET items == CliItemsOf(cmd_vals)
        n == Len(items)
        odd == n % 2 = 1
    IN  IF odd /\ ~IsInt(items[n])
        THEN /\ last' = Call("SET", {}, <<cmd_vals>>, None, None, "none",
                             <<"Error: invalid literal for int()">>)
             /\ UNCHANGED <<threads, store, expirations, auto_save_enabled,
                            expiration_time, savefile_path, disk, now>>
        ELSE LET key_value_pairs == IF odd THEN SubSeq(items, 1, n - 1) ELSE items
                 ttl == IF odd THEN Some(IntOf(items[n])) ELSE None
                 m == Len(key_value_pairs)
             IN  \E ts \in BatchReads(m) :
                   LET r == SetLoop(store, expirations, ttl, key_value_pairs, ts, 1)
                   IN  /\ store' = r.store
                       /\ expirations' = r.expirations
                       /\ disk' = AutoSave(disk, r.store, r.expirations)
                       /\ now' = IF m = 0 THEN now ELSE ts[m]
                       /\ last' = Call("SET", {}, <<cmd_vals>>, ttl, None, "none",
                                       r.out \o AutoSaveOut
                                         \o (IF AutoSaveRaised(disk) = "none"
                                             THEN <<>> ELSE <<"Error: OSError">>))
                       /\ UNCHANGED <<threads, auto_save_enabled, expiration_time,
                                      savefile_path>>

\* A variant of GetResult that saves only when the eviction removed a key.
GetResultSaveIfRemoved(st, ex, key, t) ==
    IF _is_expired(ex, key, t)
    THEN LET r == DeleteKey(st, ex, key)
         IN  [store |-> r.store, expirations |-> r.expirations,
              ret |-> None, deleted |-> key \in DOMAIN st,
              out |-> r.out
                        \o (IF key \in DOMAIN st THEN AutoSaveOut ELSE <<>>)
                        \o <<"GET: key expired or does not exist">>]
    ELSE [store |-> st, expirations |-> ex,
          ret |-> DictGet(st, key), deleted |-> FALSE,
          out |-> <<"GET">>]

\* get(key) at clock reading t: the dicts after the call, the value returned
\* and the diagnostics.  The save of an eviction is AutoSave, in the action.
GetResult(st, ex, key, t) ==
    IF _is_expired(ex, key, t)
    THEN LET r == DeleteKey(st, ex, key)
         IN  [store |-> r.store, expirations |-> r.expirations,
              ret |-> None, deleted |-> TRUE,
              out |-> r.out \o AutoSaveOut
                        \o (IF AutoSaveRaised(disk) = "none"
                            THEN <<"GET: key expired or does not exist">>
                            ELSE <<>>)]
    ELSE [store |-> st, expirations |-> ex,
          ret |-> DictGet(st, key), deleted |-> FALSE,
          out |-> <<"GET">>]

get(key) ==
    \E t \in ClockReads :
        LET r == GetResult(store, expirations, key, t)
        IN  /\ now' = t
            /\ store' = r.store
            /\ expirations' = r.expirations
            /\ disk' = IF r.deleted
                       THEN AutoSave(disk, r.store, r.expirations)
                       ELSE disk
            /\ last' = Call("get", {key}, <<>>, None, r.ret,
                            IF r.deleted THEN AutoSaveRaised(disk) ELSE "none",
                            r.out)
            /\ UNCHANGED <<threads, auto_save_enabled, expiration_time, savefile_path>>

delete(key) ==
    LET r == DeleteKey(store, expirations, key)
    IN  /\ store' = r.store
        /\ expirations' = r.expirations
        /\ disk' = AutoSave(disk, r.store, r.expirations)
        /\ last' = Call("delete", {key}, <<>>, None, None,
                        AutoSaveRaised(disk), r.out \o AutoSaveOut)
        /\ UNCHANGED <<threads, auto_save_enabled, expiration_time, savefile_path, now>>

\* The CLI's SAVE: self.redis.save(self.savefile_path)
save ==
    /\ disk' = SaveTo(disk, savefile_path, store, expirations)
    /\ last' = Call("save", {}, <<>>, None, None,
                    SaveRaised(disk, savefile_path), SaveOut(disk, savefile_path))
    /\ UNCHANGED <<threads, store, expirations, auto_save_enabled, expiration_time,
                   savefile_path, now>>

\* A variant of LoadFile that starts empty when there is no file.
LoadFileResetOnMissing(st, ex, file) ==
    IF file.kind = "absent"
    THEN [store |-> EmptyDict, expirations |-> EmptyDict, raised |-> "none",
          out |-> <<"No existing data found">>]
    ELSE [store |-> JsonDict(file.store),
          expirations |-> JsonDict(file.expirations),
          raised |-> "none", out |-> <<"Data loaded">>]

\* What load does to the dicts st, ex when the file at the path holds `file`.
LoadFile(st, ex, file) ==
    IF file.kind = "absent"
    THEN [store |-> st, expirations |-> ex, raised |-> "none",
          out |-> <<"No existing data found">>]
    ELSE IF file.kind = "directory"
    THEN [store |-> st, expirations |-> ex, raised |-> "OSError",
          out |-> <<>>]
    ELSE IF file.kind = "garbage"
    THEN [store |-> st, expirations |-> ex, raised |-> "JSONDecodeError",
          out |-> <<>>]
    ELSE IF "store" \notin file.has
    THEN [store |-> st, expirations |-> ex, raised |-> "KeyError",
          out |-> <<>>]
    ELSE IF "expirations" \notin file.has
    THEN [store |-> JsonDict(file.store), expirations |-> ex,
          raised |-> "KeyError", out |-> <<>>]
    ELSE [store |-> JsonDict(file.store),
          expirations |-> JsonDict(file.expirations),
          raised |-> "none", out |-> <<"Data loaded">>]

\* The CLI's LOAD: self.redis.load(self.savefile_path)
load ==
    LET r == LoadFile(store, expirations, disk[savefile_path])
    IN  /\ store' = r.store
        /\ expirations' = r.expirations
        /\ last' = Call("load", {}, <<>>, None, None, r.raised, r.out)
        /\ UNCHANGED <<threads, auto_save_enabled, expiration_time, savefile_path,
                       disk, now>>

\* A variant of enable_auto_save that saves at once.
EnableAutoSaveAndSave ==
    /\ auto_save_enabled' = TRUE
    /\ disk' = SaveTo(disk, DefaultFilename, store, expirations)
    /\ last' = NoCall("enable_auto_save")
    /\ UNCHANGED <<threads, store, expirations, expiration_time, savefile_path, now>>

enable_auto_save ==
    /\ auto_save_enabled' = TRUE
    /\ last' = NoCall("enable_auto_save")
    /\ UNCHANGED <<threads, store, expirations, expiration_time, savefile_path, disk, now>>

disable_auto_save ==
    /\ auto_save_enabled' = FALSE
    /\ last' = NoCall("disable_auto_save")
    /\ UNCHANGED <<threads, store, expirations, expiration_time, savefile_path, disk, now>>

\* Time passes while the program is idle.
Tick ==
    /\ now < MaxTime
    /\ now' = now + 1
    /\ last' = NoCall("tick")
    /\ UNCHANGED <<threads, store, expirations, auto_save_enabled, expiration_time,
                   savefile_path, disk>>

\* The user edits the file that LOAD reads.
EditFile(file) ==
    /\ disk' = [disk EXCEPT ![savefile_path] = file]
    /\ last' = NoCall("edit")
    /\ UNCHANGED <<threads, store, expirations, auto_save_enabled, expiration_time,
                   savefile_path, now>>

----------------------------------------------------------------------------
(* Two threads inside calls on one key, without a lock: each step is one    *)
(* read or write of a mapping, and the threads' steps interleave freely.    *)

ThreadIds == {1, 2}
ThreadOps == {"get", "set", "delete"}

\* The key both threads name, and the pair each thread's set passes:
\* set("a x") in thread 1, set("a, x y") in thread 2.
ThreadKey == KeyA
ThreadPair(t) == IF t = 1 THEN PairAX ELSE PairAXY

NewThread(op) == [op |-> op, pc |-> "start", ret |-> None, raised |-> "none"]

\* Thread t has taken a step and its record is rec; the step interleaves when
\* the other thread is part-way through its call.
Moved(t, rec) ==
    [th |-> [threads.th EXCEPT ![t] = rec],
     start |-> threads.start,
     interleaved |-> \/ threads.interleaved
                     \/ threads.th[3 - t].pc \notin {"start", "done"}]

Goto(t, pc) == Moved(t, [threads.th[t] EXCEPT !.pc = pc])
Return(t, ret) == Moved(t, [threads.th[t] EXCEPT !.pc = "done", !.ret = ret])
Raise(t, exc) == Moved(t, [threads.th[t] EXCEPT !.pc = "done", !.raised = exc])

\* _is_expired: if key not in self.expirations: return False
IsExpiredCheck(t) ==
    /\ threads.th[t].op = "get" /\ threads.th[t].pc = "start"
    /\ threads' = Goto(t, IF ThreadKey \notin DOMAIN expirations
                          THEN "store_get" ELSE "compare")
    /\ UNCHANGED <<store, expirations, auto_save_enabled, expiration_time,
                   savefile_path, disk, now, last>>

\* _is_expired: return time.time() > self.expirations[key]
ExpiryCompare(t) ==
    /\ threads.th[t].pc = "compare"
    /\ threads' = IF ThreadKey \notin DOMAIN expirations
                  THEN Raise(t, "KeyError")
                  ELSE Goto(t, IF now > expirations[ThreadKey]
                               THEN "in_store" ELSE "store_get")
    /\ UNCHANGED <<store, expirations, auto_save_enabled, expiration_time,
                   savefile_path, disk, now, last>>

\* get: value = self.store.get(key); return value
StoreGet(t) ==
    /\ threads.th[t].pc = "store_get"
    /\ threads' = Return(t, DictGet(store, ThreadKey))
    /\ UNCHANGED <<store, expirations, auto_save_enabled, expiration_time,
                   savefile_path, disk, now, last>>

\* delete, called by the caller or by get's eviction: if key in self.store
InStoreCheck(t) ==
    /\ \/ threads.th[t].op = "delete" /\ threads.th[t].pc = "start"
       \/ threads.th[t].pc = "in_store"
    /\ threads' = Goto(t, IF ThreadKey \in DOMAIN store
                          THEN "del_store" ELSE "auto_save")
    /\ UNCHANGED <<store, expirations, auto_save_enabled, expiration_time,
                   savefile_path, disk, now, last>>

\* delete: del self.store[key]
DelStore(t) ==
    /\ threads.th[t].pc = "del_store"
    /\ IF ThreadKey \in DOMAIN store
       THEN store' = DictDel(store, ThreadKey) /\ threads' = Goto(t, "in_expirations")
       ELSE store' = store /\ threads' = Raise(t, "KeyError")
    /\ UNCHANGED <<expirations, auto_save_enabled, expiration_time,
                   savefile_path, disk, now, last>>

\* delete: if key in self.expirations
InExpirationsCheck(t) ==
    /\ threads.th[t].pc = "in_expirations"
    /\ threads' = Goto(t, IF ThreadKey \in DOMAIN expirations
                          THEN "del_expirations" ELSE "auto_save")
    /\ UNCHANGED <<store, expirations, auto_save_enabled, expiration_time,
                   savefile_path, disk, now, last>>

\* A variant of DelExpirations that leaves the expiry where it is.
DelExpirationsSkipped(t) ==
    /\ threads.th[t].pc = "del_expirations"
    /\ threads' = Goto(t, "auto_save")
    /\ UNCHANGED <<store, expirations, auto_save_enabled, expiration_time,
                   savefile_path, disk, now, last>>

\* delete: del self.expirations[key]
DelExpirations(t) ==
    /\ threads.th[t].pc = "del_expirations"
    /\ IF ThreadKey \in DOMAIN expirations
       THEN /\ expirations' = DictDel(expirations, ThreadKey)
            /\ threads' = Goto(t, "auto_save")
       ELSE expirations' = expirations /\ threads' = Raise(t, "KeyError")
    /\ UNCHANGED <<store, auto_save_enabled, expiration_time,
                   savefile_path, disk, now, last>>

\* set: self.store[key] = value
SetStore(t) ==
    /\ threads.th[t].op = "set" /\ threads.th[t].pc = "start"
    /\ store' = DictSet(store, Tokens[ThreadPair(t)][1], Tokens[ThreadPair(t)][2])
    /\ threads' = Goto(t, "set_expirations")
    /\ UNCHANGED <<expirations, auto_save_enabled, expiration_time,
                   savefile_path, disk, now, last>>

\* set: self.expirations[key] = time.time() + ttl, ttl the default
SetExpirations(t) ==
    /\ threads.th[t].pc = "set_expirations"
    /\ expirations' = DictSet(expirations, Tokens[ThreadPair(t)][1],
                              now + expiration_time)
    /\ threads' = Goto(t, "auto_save")
    /\ UNCHANGED <<store, auto_save_enabled, expiration_time,
                   savefile_path, disk, now, last>>

\* set, delete: if self.auto_save_enabled: self.save(); then the call returns
\* (None from set, from delete and from get's eviction).
AutoSaveStep(t) ==
    /\ threads.th[t].pc = "auto_save"
    /\ disk' = AutoSave(disk, store, expirations)
    /\ threads' = IF AutoSaveRaised(disk) = "none"
                  THEN Return(t, None) ELSE Raise(t, AutoSaveRaised(disk))
    /\ UNCHANGED <<store, expirations, auto_save_enabled, expiration_time,
                   savefile_path, now, last>>

----------------------------------------------------------------------------
(* Sessions *)

\* A session of set, get and delete calls while time passes, which loads
\* the file at its path as found or as edited by hand.
Init == InitWith(DefaultFilename)

Next ==
    \/ \E key_values \in Batches, ttl \in TTLArgs : set(key_values, ttl)
    \/ \E key \in Keys : get(key)
    \/ \E key \in Keys : delete(key)
    \/ load
    \/ Tick
    \/ \E file \in HandWritten : EditFile(file)

Spec == Init /\ [][Next]_vars

\* A session that also saves and toggles auto-save, at the default path or
\* at another one, over single-pair set calls.
InitDisk == \E path \in Paths : InitWith(path)

DiskBatches == {<<PairAX>>, <<PairBX>>, <<PairOneToken>>}
DiskTTLArgs == {None, Some(0 - 1)}
DiskFiles == {NotJson, JsonFile({"store", "expirations"}, {}, {<<KeyA, 0>>})}

NextDisk ==
    \/ \E key_values \in DiskBatches, ttl \in DiskTTLArgs : set(key_values, ttl)
    \/ \E key \in Keys : get(key)
    \/ \E key \in Keys : delete(key)
    \/ save
    \/ load
    \/ enable_auto_save
    \/ disable_auto_save
    \/ Tick
    \/ \E file \in DiskFiles : EditFile(file)

SpecDisk == InitDisk /\ [][NextDisk]_vars

\* A session at the default path in which a directory may take the place of
\* the snapshot file, so that every open() of the path fails, and may be
\* removed again.
IOFiles == {Directory, NoFile}

NextIO ==
    \/ \E key_values \in DiskBatches, ttl \in DiskTTLArgs : set(key_values, ttl)
    \/ \E key \in Keys : get(key)
    \/ \E key \in Keys : delete(key)
    \/ save
    \/ load
    \/ Tick
    \/ \E file \in IOFiles : EditFile(file)

SpecIO == Init /\ [][NextIO]_vars

\* The decoding of one pair string: a fresh store is handed any string as the
\* only pair of its first set call.
InitSplit ==
    /\ threads = NoThreads
    /\ store = EmptyDict
    /\ expirations = EmptyDict
    /\ auto_save_enabled \in BOOLEAN
    /\ expiration_time = DefaultTTL
    /\ savefile_path = DefaultFilename
    /\ disk = [p \in Paths |-> NoFile]
    /\ now = 0
    /\ \E kv \in Strings :
           last = Call("init", {}, <<kv>>, None, None, "none", <<>>)

SetDrawn == last.op = "init" /\ set(last.batch, None)

NextSplit == SetDrawn

SpecSplit == InitSplit /\ [][NextSplit]_vars

\* A session at the prompt: PyRedisCLI builds its store with auto_save=True
\* and finds no file to load; SET lines, GET and DELETE are typed while time
\* passes.
InitCLI == InitWith(DefaultFilename) /\ auto_save_enabled

NextCLI ==
    \/ \E cmd_vals \in CliLines : cli_set(cmd_vals)
    \/ \E key \in Keys : get(key)
    \/ \E key \in Keys : delete(key)
    \/ Tick

SpecCLI == InitCLI /\ [][NextCLI]_vars

\* Two threads, each making one call on key a, start together on a store
\* that is empty, holds a unexpired, or holds a expired.
StartMems ==
    {[store |-> EmptyDict, expirations |-> EmptyDict],
     [store |-> DictSet(EmptyDict, KeyA, <<"y">>),
      expirations |-> DictSet(EmptyDict, KeyA, 1)],
     [store |-> DictSet(EmptyDict, KeyA, <<"y">>),
      expirations |-> DictSet(EmptyDict, KeyA, 0 - 1)]}

InitThreads ==
    /\ \E m \in StartMems, op1 \in ThreadOps, op2 \in ThreadOps :
          /\ store = m.store
          /\ expirations = m.expirations
          /\ threads = [th |-> <<NewThread(op1), NewThread(op2)>>,
                        start |-> m, interleaved |-> FALSE]
    /\ auto_save_enabled \in BOOLEAN
    /\ expiration_time = DefaultTTL
    /\ savefile_path = DefaultFilename
    /\ disk = [p \in Paths |-> NoFile]
    /\ now = 0
    /\ last = NoCall("init")

NextThreads ==
    \/ \E t \in ThreadIds : IsExpiredCheck(t)
    \/ \E t \in ThreadIds : ExpiryCompare(t)
    \/ \E t \in ThreadIds : StoreGet(t)
    \/ \E t \in ThreadIds : InStoreCheck(t)
    \/ \E t \in ThreadIds : DelStore(t)
    \/ \E t \in ThreadIds : InExpirationsCheck(t)
    \/ \E t \in ThreadIds : DelExpirations(t)
    \/ \E t \in ThreadIds : SetStore(t)
    \/ \E t \in ThreadIds : SetExpirations(t)
    \/ \E t \in ThreadIds : AutoSaveStep(t)

SpecThreads == InitThreads /\ [][NextThreads]_vars

----------------------------------------------------------------------------
(* What the documentation says the calls do, stated without the code's     *)
(* decoding: the pair strings that are well formed, and the key and value  *)
(* each one names.                                                         *)

WellFormed == {PairAX, PairAXY, PairBX}
KeyOf(kv) == IF kv = PairBX THEN KeyB ELSE KeyA
ValueOf(kv) == IF kv = PairAXY THEN <<"x", " ", "y">> ELSE <<"x">>

\* The positions of a batch that hold a well-formed pair for key k.
PositionsOf(batch, k) ==
    {i \in 1..Len(batch) : batch[i] \in WellFormed /\ KeyOf(batch[i]) = k}

\* The keys a batch sets, and the value it leaves each with: its last pair's.
SetKeys(batch) == {k \in Keys : PositionsOf(batch, k) # {}}
SetValue(batch, k) ==
    ValueOf(batch[CHOOSE i \in PositionsOf(batch, k) :
                     \A j \in PositionsOf(batch, k) : j <= i])

\* The ttl a set call applies: its argument, or the default.
EffectiveTTL(ttl) == IF ttl = None THEN expiration_time ELSE CHOOSE x \in ttl : TRUE

\* The key argument of a get or delete call.
KeyArg(call) == CHOOSE k \in call.key : TRUE

\* A file at which load fails: not JSON, or a field missing.
Corrupt(file) ==
    \/ file.kind = "garbage"
    \/ file.kind = "json" /\ file.has # {"store", "expirations"}

----------------------------------------------------------------------------
(* Claims *)

\* C1: get(k) returns the stored value exactly when k is in store and not
\* expired (the clock read by the call strictly greater than expirations[k]);
\* otherwise it returns None and raises nothing.  When k is found in store
\* but expired, k is in neither store nor expirations after the call.
C1_GetReturnsLiveValue ==
    [][last'.op = "get" =>
         LET k == KeyArg(last')
             found == k \in DOMAIN store
             expired == k \in DOMAIN expirations /\ now' > expirations[k]
         IN  /\ last'.raised = "none"
             /\ last'.ret = IF found /\ ~expired THEN Some(store[k]) ELSE None
             /\ (found /\ expired) =>
                    (k \notin DOMAIN store' /\ k \notin DOMAIN expirations')
      ]_vars

\* C1 witness: a get found key a expired, evicted it and returned None.
C1_Witness ==
    /\ last.op = "get"
    /\ last.key = {KeyA}
    /\ last.ret = None
    /\ last.out # <<>> /\ Head(last.out) = "DELETE"
    /\ KeyA \notin DOMAIN store
    /\ KeyA \notin DOMAIN expirations

\* C2: after a set with a ttl > 0 (explicit or default), every key the batch
\* sets holds the batch's value for it and the expiry set-time + ttl,
\* whatever it held before; and a get of such a key right after, at a clock
\* reading not beyond that expiry, returns the value.
C2_SetOverwritesValueAndExpiry ==
    [][/\ (last'.op = "set" /\ EffectiveTTL(last'.ttl) > 0) =>
            \A k \in SetKeys(last'.batch) :
                /\ k \in DOMAIN store'
                /\ store'[k] = SetValue(last'.batch, k)
                /\ k \in DOMAIN expirations'
                /\ \E t \in now..now' :
                       expirations'[k] = t + EffectiveTTL(last'.ttl)
       /\ (/\ last.op = "set" /\ EffectiveTTL(last.ttl) > 0
           /\ last'.op = "get"
           /\ last'.key \subseteq SetKeys(last.batch)
           /\ now' <= expirations[KeyArg(last')]) =>
            /\ last'.ret = Some(SetValue(last.batch, KeyArg(last')))
            /\ store' = store
            /\ expirations' = expirations
      ]_vars

\* C2 witness: a set with the default ttl has overwritten key a, which has
\* the second value of its batch and an expiry ahead of the clock.
C2_Witness ==
    /\ last.op = "set"
    /\ last.ttl = None
    /\ last.batch = <<PairAX, PairAXY>>
    /\ store[KeyA] = <<"x", " ", "y">>
    /\ expirations[KeyA] = now + expiration_time
    /\ now > 0

\* C3, as claimed: for a key set with a ttl <= 0 the very next get returns
\* None and leaves the key in neither store nor expirations.
C3_NonPositiveTTLGoneOnNextGet ==
    [][(/\ last.op = "set" /\ EffectiveTTL(last.ttl) <= 0
        /\ last'.op = "get"
        /\ last'.key \subseteq SetKeys(last.batch)) =>
           LET k == KeyArg(last')
           IN  /\ last'.ret = None
               /\ k \notin DOMAIN store'
               /\ k \notin DOMAIN expirations'
      ]_vars

\* C3, amended: a set with a ttl <= 0 stores an expiry not after the clock.
\* With a negative ttl the very next get returns None and removes the key
\* from both mappings; with ttl = 0 it does so exactly when the clock it
\* reads is strictly after the one the set read, and otherwise returns the
\* value and changes nothing.
C3_NonPositiveTTLGoneOnceClockAdvances ==
    [][(/\ last.op = "set" /\ EffectiveTTL(last.ttl) <= 0
        /\ last'.op = "get"
        /\ last'.key \subseteq SetKeys(last.batch)) =>
           LET k == KeyArg(last')
           IN  /\ k \in DOMAIN expirations
               /\ expirations[k] <= now
               /\ IF EffectiveTTL(last.ttl) < 0 \/ now' > expirations[k]
                  THEN /\ last'.ret = None
                       /\ k \notin DOMAIN store'
                       /\ k \notin DOMAIN expirations'
                  ELSE /\ last'.ret = Some(SetValue(last.batch, k))
                       /\ store' = store
                       /\ expirations' = expirations
      ]_vars

\* C3 witness: at clock 0 a get returned the value of key a, whose expiry is
\* the clock itself: it was set with ttl = 0 and the clock has not moved.
C3_Witness ==
    /\ last.op = "get"
    /\ last.key = {KeyA}
    /\ last.ret # None
    /\ now = 0
    /\ KeyA \in DOMAIN expirations
    /\ expirations[KeyA] = 0

\* C4: a load of a corrupt file (not JSON, or the store field or the
\* expirations field missing) raises and leaves store and expirations as
\* they were.
C4_CorruptLoadChangesNothing ==
    [][(last'.op = "load" /\ Corrupt(disk[savefile_path])) =>
           /\ last'.raised # "none"
           /\ store' = store
           /\ expirations' = expirations
      ]_vars

\* C5: with auto-save enabled, after a set or a delete the file that SAVE
\* and LOAD use holds what save would write from the two mappings.
C5_AutoSaveKeepsSnapshotCurrent ==
    (last.op \in {"set", "delete"} /\ auto_save_enabled) =>
        disk[savefile_path] = Snapshot(store, expirations)

\* C6: with auto-save disabled, a set or a delete writes no file.
C6_NoWriteWhenAutoSaveDisabled ==
    [][(last'.op \in {"set", "delete"} /\ ~auto_save_enabled) => disk' = disk
      ]_vars

\* C6 witness: auto-save is off, a set has stored a key, and the snapshot on
\* disk is an older one.
C6_Witness ==
    /\ last.op = "set"
    /\ ~auto_save_enabled
    /\ DOMAIN store # {}
    /\ disk[DefaultFilename].kind = "json"
    /\ disk[DefaultFilename].has = {"store", "expirations"}
    /\ disk[DefaultFilename] # Snapshot(store, expirations)

\* C7: save leaves store and expirations unchanged, and a load of the file
\* it wrote into a fresh store gives mappings equal to them, expired keys
\* included, so that get returns the same there for every key at every
\* later clock.
C7_SaveLoadRoundTrip ==
    [][last'.op = "save" =>
         LET r == LoadFile(EmptyDict, EmptyDict, disk'[savefile_path])
         IN  /\ store' = store
             /\ expirations' = expirations
             /\ r.raised = "none"
             /\ r.store = store
             /\ r.expirations = expirations
             /\ \A k \in Keys, t \in now..MaxTime :
                    GetResult(r.store, r.expirations, k, t).ret
                        = GetResult(store, expirations, k, t).ret
      ]_vars

\* C7 witness: a save wrote a snapshot that holds a key already expired.
C7_Witness ==
    /\ last.op = "save"
    /\ \E k \in DOMAIN store \cap DOMAIN expirations : now > expirations[k]
    /\ \E k \in DOMAIN store \cap DOMAIN expirations : now <= expirations[k]
    /\ disk[savefile_path] = Snapshot(store, expirations)

\* C8: every key of expirations is a key of store.
C8_ExpirationsWithinStore == DOMAIN expirations \subseteq DOMAIN store

\* C9: delete(k) raises nothing; it removes k from store and expirations
\* when k is in store and changes neither mapping otherwise.
C9_DeleteRemovesOrNoOp ==
    [][last'.op = "delete" =>
         LET k == KeyArg(last')
         IN  /\ last'.raised = "none"
             /\ IF k \in DOMAIN store
                THEN k \notin DOMAIN store' /\ k \notin DOMAIN expirations'
                ELSE store' = store /\ expirations' = expirations
      ]_vars

\* C9 witness: a delete of a key that was not there, with another key stored.
C9_Witness ==
    /\ last.op = "delete"
    /\ last.key = {KeyA}
    /\ last.out # <<>> /\ Head(last.out) = "DELETE: key does not exist"
    /\ KeyB \in DOMAIN store
    /\ KeyB \in DOMAIN expirations

\* C10: a set whose batch holds a malformed pair raises nothing, gives every
\* key of its well-formed pairs the batch's value and expiry, and changes
\* no other entry of either mapping.
C10_MalformedPairSkipped ==
    [][(last'.op = "set"
        /\ \E i \in 1..Len(last'.batch) : last'.batch[i] \notin WellFormed) =>
           /\ last'.raised = "none"
           /\ DOMAIN store' = DOMAIN store \cup SetKeys(last'.batch)
           /\ DOMAIN expirations' = DOMAIN expirations \cup SetKeys(last'.batch)
           /\ \A k \in SetKeys(last'.batch) :
                  /\ store'[k] = SetValue(last'.batch, k)
                  /\ \E t \in now..now' :
                         expirations'[k] = t + EffectiveTTL(last'.ttl)
           /\ \A k \in DOMAIN store \ SetKeys(last'.batch) :
                  store'[k] = store[k]
           /\ \A k \in DOMAIN expirations \ SetKeys(last'.batch) :
                  expirations'[k] = expirations[k]
      ]_vars

\* C10 witness: a set of a malformed pair followed by "b x" stored b, and a
\* is not there.
C10_Witness ==
    /\ last.op = "set"
    /\ last.batch = <<PairOneToken, PairBX>>
    /\ last.raised = "none"
    /\ DOMAIN store = {KeyB}
    /\ store[KeyB] = <<"x">>
    /\ DOMAIN expirations = {KeyB}

\* The keys one call names: those of a set's well-formed pairs, or the
\* argument of a get or delete.
NamedKeys(call) == IF call.op = "set" THEN SetKeys(call.batch) ELSE call.key

\* Whether the call printed that it saved the snapshot.
Saved(call) == \E i \in 1..Len(call.out) : call.out[i] = "Data saved"

\* k is in store with an expiry that the clock t has passed.
ExpiredAt(st, ex, k, t) == k \in DOMAIN st /\ k \in DOMAIN ex /\ t > ex[k]

\* C11: a key in store with no expirations entry never expires: a get of it
\* at any clock returns its value and changes nothing, and every step other
\* than a set or delete naming it, or a load, leaves it in store with its
\* value and without an expiry.
C11_NoExpiryEntryNeverExpires ==
    [][\A k \in DOMAIN store \ DOMAIN expirations :
           /\ (last'.op = "get" /\ last'.key = {k}) =>
                  /\ last'.ret = Some(store[k])
                  /\ store' = store
                  /\ expirations' = expirations
                  /\ disk' = disk
           /\ ~(last'.op = "load"
                \/ (last'.op \in {"set", "delete"} /\ k \in NamedKeys(last'))) =>
                  /\ k \in DOMAIN store'
                  /\ store'[k] = store[k]
                  /\ k \notin DOMAIN expirations'
      ]_vars

\* C11 witness: after the clock has moved, a get returned the value of key a,
\* which has no expirations entry.
C11_Witness ==
    /\ last.op = "get"
    /\ last.key = {KeyA}
    /\ KeyA \in DOMAIN store
    /\ KeyA \notin DOMAIN expirations
    /\ last.ret = Some(store[KeyA])
    /\ now > 0

\* C12: expiration is lazy.  The passage of time changes neither mapping; an
\* expired key stays in store and expirations, value and expiry unchanged,
\* through every call that is not a get, delete or set naming it, or a load;
\* every snapshot written holds it; and when a load brings in a key already
\* expired it is in store, expired, and the first get of it evicts it.
C12_ExpirationIsLazy ==
    [][/\ last'.op = "tick" => (store' = store /\ expirations' = expirations)
       /\ \A k \in Keys :
            ExpiredAt(store, expirations, k, now) =>
              /\ ~(last'.op = "load"
                   \/ (last'.op \in {"get", "delete", "set"}
                       /\ k \in NamedKeys(last'))) =>
                     /\ ExpiredAt(store', expirations', k, now')
                     /\ store'[k] = store[k]
                     /\ expirations'[k] = expirations[k]
                     /\ \A p \in Paths :
                          (disk'[p] # disk[p] /\ last'.op # "edit") =>
                              /\ <<k, store[k]>> \in disk'[p].store
                              /\ <<k, expirations[k]>> \in disk'[p].expirations
              /\ last'.op = "save" =>
                     /\ <<k, store[k]>> \in disk'[savefile_path].store
                     /\ <<k, expirations[k]>> \in disk'[savefile_path].expirations
       /\ \A k \in Keys :
            (/\ last'.op = "load"
             /\ disk[savefile_path].kind = "json"
             /\ \E m \in disk[savefile_path].store : m[1] = k
             /\ \E m \in disk[savefile_path].expirations :
                    m[1] = k /\ now > m[2]) =>
              /\ ExpiredAt(store', expirations', k, now')
              /\ \A t \in now'..MaxTime :
                   LET r == GetResult(store', expirations', k, t)
                   IN  /\ r.ret = None
                       /\ k \notin DOMAIN r.store
                       /\ k \notin DOMAIN r.expirations
      ]_vars

\* C12 witness: a load has brought back key a, saved when it was already
\* expired, and it is in store and expirations, still expired.
C12_Witness ==
    /\ last.op = "load"
    /\ last.out = <<"Data loaded">>
    /\ ExpiredAt(store, expirations, KeyA, now)
    /\ disk[savefile_path] = Snapshot(store, expirations)

\* C13: a load at a path where there is no file raises nothing and leaves
\* the two mappings, the flags and the files as they were.
C13_LoadMissingFileChangesNothing ==
    [][(last'.op = "load" /\ disk[savefile_path].kind = "absent") =>
           /\ last'.raised = "none"
           /\ store' = store
           /\ expirations' = expirations
           /\ auto_save_enabled' = auto_save_enabled
           /\ expiration_time' = expiration_time
           /\ disk' = disk
      ]_vars

\* C13 witness: a load found no file and the store still holds a key.
C13_Witness ==
    /\ last.op = "load"
    /\ last.out = <<"No existing data found">>
    /\ DOMAIN store # {}
    /\ DOMAIN expirations # {}

\* C15: enable_auto_save sets the flag and disable_auto_save clears it,
\* whatever it was; neither changes store, expirations, expiration_time or
\* any file.
C15_TogglesChangeOnlyTheFlag ==
    [][last'.op \in {"enable_auto_save", "disable_auto_save"} =>
           /\ auto_save_enabled' = (last'.op = "enable_auto_save")
           /\ store' = store
           /\ expirations' = expirations
           /\ expiration_time' = expiration_time
           /\ disk' = disk
      ]_vars

\* C15 witness: auto-save has been enabled over a store whose snapshot on
\* disk is out of date.
C15_Witness ==
    /\ last.op = "enable_auto_save"
    /\ auto_save_enabled
    /\ DOMAIN store # {}
    /\ disk[DefaultFilename] # Snapshot(store, expirations)

\* C17: get(k) writes the snapshot exactly when auto-save is enabled and k
\* has an expirations entry that the clock read by the call has passed, and
\* then writes the mappings as the call leaves them; a get of a key whose
\* entry is not expired, or that has none, changes no mapping and no file.
C17_GetWritesOnlyOnEviction ==
    [][last'.op = "get" =>
         LET k == KeyArg(last')
             expired == k \in DOMAIN expirations /\ now' > expirations[k]
         IN  /\ Saved(last') <=> (auto_save_enabled /\ expired)
             /\ Saved(last') =>
                    disk' = [disk EXCEPT ![DefaultFilename] =
                                 Snapshot(store', expirations')]
             /\ ~Saved(last') => disk' = disk
             /\ ~expired => (store' = store /\ expirations' = expirations)
      ]_vars

\* C17 witness: with auto-save on, a get of a key that has an expired
\* expirations entry and no store entry has written the snapshot.
C17_Witness ==
    /\ last.op = "get"
    /\ last.key = {KeyA}
    /\ Saved(last)
    /\ KeyA \in DOMAIN expirations
    /\ now > expirations[KeyA]
    /\ disk[DefaultFilename] = Snapshot(store, expirations)

\* C18: a set, a get and a delete leave the value and the expiry of every
\* key they do not name as they were.
C18_KeyIsolation ==
    [][last'.op \in {"set", "get", "delete"} =>
         \A k \in (DOMAIN store \cup DOMAIN expirations
                     \cup DOMAIN store' \cup DOMAIN expirations')
                  \ NamedKeys(last') :
             /\ DictGet(store', k) = DictGet(store, k)
             /\ DictGet(expirations', k) = DictGet(expirations, k)
      ]_vars

\* C18 witness: a delete removed key a while key b keeps its value and expiry.
C18_Witness ==
    /\ last.op = "delete"
    /\ last.key = {KeyA}
    /\ last.out # <<>> /\ Head(last.out) = "DELETE"
    /\ KeyB \in DOMAIN store
    /\ KeyB \in DOMAIN expirations
    /\ KeyA \notin DOMAIN store

\* C14: when auto-save is on and the snapshot file cannot be written, a set
\* and a delete raise the I/O error to their caller, write nothing, and
\* leave their change of the mappings applied.
C14_FailedAutoSaveKeepsMutation ==
    [][(/\ last'.op \in {"set", "delete"}
        /\ auto_save_enabled
        /\ ~CanWrite(disk, DefaultFilename)) =>
           /\ last'.raised = "OSError"
           /\ disk' = disk
           /\ last'.op = "set" =>
                /\ \A k \in SetKeys(last'.batch) :
                     /\ k \in DOMAIN store' /\ k \in DOMAIN expirations'
                     /\ store'[k] = SetValue(last'.batch, k)
                     /\ expirations'[k] \in
                            {t + EffectiveTTL(last'.ttl) : t \in now..now'}
                /\ \A k \in DOMAIN store \ SetKeys(last'.batch) :
                     k \in DOMAIN store' /\ store'[k] = store[k]
           /\ last'.op = "delete" =>
                LET k == KeyArg(last')
                IN  /\ k \notin DOMAIN store'
                    /\ k \in DOMAIN store => k \notin DOMAIN expirations'
                    /\ \A j \in DOMAIN store \ {k} :
                         j \in DOMAIN store' /\ store'[j] = store[j]
      ]_vars

\* C14 witness: a set whose auto-save failed has raised, and the key it set
\* is in store while the path still holds no snapshot.
C14_Witness ==
    /\ last.op = "set"
    /\ last.raised = "OSError"
    /\ last.batch = <<PairAX>>
    /\ KeyA \in DOMAIN store
    /\ ~CanWrite(disk, DefaultFilename)

\* The positions in s at which the separator comma+space begins.
SepAt(s) == {i \in 1..(Len(s) - 1) : s[i] = "," /\ s[i + 1] = " "}

\* The j-th of them, from the left.
NthSep(s, j) ==
    CHOOSE i \in SepAt(s) : Cardinality({h \in SepAt(s) : h < i}) = j - 1

\* The fields of s between its comma+space separators, empty ones included.
Fields(s) ==
    LET n == Cardinality(SepAt(s))
    IN  [j \in 1..(n + 1) |->
            SubSeq(s, IF j = 1 THEN 1 ELSE NthSep(s, j - 1) + 2,
                      IF j = n + 1 THEN Len(s) ELSE NthSep(s, j) - 1)]

\* The positions in s at which a run of non-space characters begins.
WordAt(s) == {i \in 1..Len(s) : s[i] # " " /\ (i = 1 \/ s[i - 1] = " ")}

\* The words of s: its maximal runs of non-space characters, in order.
Words(s) ==
    LET NthWord(j) ==
            CHOOSE i \in WordAt(s) : Cardinality({h \in WordAt(s) : h < i}) = j - 1
        EndOf(i) ==
            CHOOSE e \in i..Len(s) :
                /\ \A h \in i..e : s[h] # " "
                /\ e = Len(s) \/ s[e + 1] = " "
    IN  [j \in 1..Cardinality(WordAt(s)) |->
            SubSeq(s, NthWord(j), EndOf(NthWord(j)))]

\* C19: a pair string that contains comma+space is cut at every comma+space,
\* any other is cut at its runs of spaces; when that gives exactly two tokens
\* the first is stored as key with the second as value, and for any other
\* count the pair is refused as a format error and nothing is stored.
C19_PairDecodingPrecedence ==
    [][last'.op = "set" =>
         LET kv == last'.batch[1]
             toks == IF SepAt(kv) # {} THEN Fields(kv) ELSE Words(kv)
         IN  IF Len(toks) = 2
             THEN /\ store' = DictSet(store, toks[1], toks[2])
                  /\ DOMAIN expirations' = DOMAIN expirations \cup {toks[1]}
                  /\ Head(last'.out) = "SET"
             ELSE /\ store' = store
                  /\ expirations' = expirations
                  /\ Head(last'.out) = "Error: Invalid format"
      ]_vars

\* C19 witness: the string "a, a", which holds a comma+space and so a space,
\* was cut at the comma+space and stored key "a", not key "a,".
C19_Witness ==
    /\ last.op = "set"
    /\ last.batch = << <<"a", ",", " ", "a">> >>
    /\ DOMAIN store = {<<"a">>}
    /\ store[<<"a">>] = <<"a">>

\* The line a user types after SET for the pairs ps and an optional ttl:
\* the pairs, then the ttl's numeral, separated by comma+space.
Numeral(n) == IF n = 0 THEN <<"0">> ELSE <<"1">>

RECURSIVE TypedPairs(_)
TypedPairs(ps) ==
    IF Len(ps) = 1 THEN ps[1] ELSE ps[1] \o <<",", " ">> \o TypedPairs(Tail(ps))

TypedLine(ps, ttl) ==
    IF ttl = None THEN TypedPairs(ps)
    ELSE TypedPairs(ps) \o <<",", " ">> \o Numeral(CHOOSE x \in ttl : TRUE)

TypedPairSeqs == {<<PairAX>>, <<PairBX>>, <<PairAX, PairBX>>}

\* A step that is a SET of the line typed for ps and ttl leaves every pair
\* typed in store with its value and with the expiry of the ttl typed, or of
\* the default when none was.
SetLineStores(ps, ttl) ==
    (last'.op = "SET" /\ last'.batch = <<TypedLine(ps, ttl)>>) =>
        \A k \in SetKeys(ps) :
            /\ k \in DOMAIN store' /\ k \in DOMAIN expirations'
            /\ store'[k] = SetValue(ps, k)
            /\ expirations'[k] \in {t + EffectiveTTL(ttl) : t \in now..now'}

\* C20: a SET line holding a single "key value" pair and no ttl stores that
\* key with the default ttl, and a SET line holding pairs followed by a
\* numeric ttl stores those pairs with that ttl.
C20_SetLineStoresPairsWithTTL ==
    [][/\ \A ps \in {qs \in TypedPairSeqs : Len(qs) = 1} :
              SetLineStores(ps, None)
       /\ \A ps \in {qs \in TypedPairSeqs : Len(qs) > 1}, n \in {0, 1} :
              SetLineStores(ps, Some(n))
      ]_vars

\* One whole call by thread t on the mappings and files m, run on its own.
AtomicCall(t, op, m) ==
    IF op = "get"
    THEN LET r == GetResult(m.store, m.expirations, ThreadKey, now)
         IN  [store |-> r.store, expirations |-> r.expirations,
              disk |-> IF r.deleted
                       THEN AutoSave(m.disk, r.store, r.expirations)
                       ELSE m.disk,
              ret |-> r.ret]
    ELSE LET r == IF op = "set"
                  THEN SetPair(m.store, m.expirations, None, ThreadPair(t), now)
                  ELSE DeleteKey(m.store, m.expirations, ThreadKey)
         IN  [store |-> r.store, expirations |-> r.expirations,
              disk |-> AutoSave(m.disk, r.store, r.expirations),
              ret |-> None]

\* How the two calls end when thread `first` makes its call before the other.
InOrder(first) ==
    LET second == 3 - first
        m0 == [store |-> threads.start.store,
               expirations |-> threads.start.expirations,
               disk |-> [p \in Paths |-> NoFile]]
        a == AtomicCall(first, threads.th[first].op, m0)
        b == AtomicCall(second, threads.th[second].op, a)
    IN  [store |-> b.store, expirations |-> b.expirations, disk |-> b.disk,
         ret |-> [t \in ThreadIds |-> IF t = first THEN a.ret ELSE b.ret],
         raised |-> [t \in ThreadIds |-> "none"]]

SequentialOutcomes == {InOrder(1), InOrder(2)}

\* How the two calls have ended.
Outcome ==
    [store |-> store, expirations |-> expirations, disk |-> disk,
     ret |-> [t \in ThreadIds |-> threads.th[t].ret],
     raised |-> [t \in ThreadIds |-> threads.th[t].raised]]

BothDone == \A t \in ThreadIds : threads.th[t].pc = "done"

\* C16: two calls on one key whose reads and writes of the mappings
\* interleave can end as neither order of the two calls would (the witness:
\* a key just set, unexpired, has been removed); it takes interleaving: two
\* calls of which one ran all its steps before the other's first always end
\* as one of the two orders.
C16_UninterleavedCallsAreSequential ==
    (BothDone /\ ~threads.interleaved) => Outcome \in SequentialOutcomes

\* C16 witness: a get of the expired key a and a set of a have both returned
\* without error, a is in neither mapping, and neither order of the two
\* calls ends so.
C16_Witness ==
    /\ BothDone
    /\ threads.th[1].op = "get" /\ threads.th[2].op = "set"
    /\ threads.start.expirations = DictSet(EmptyDict, KeyA, 0 - 1)
    /\ \A t \in ThreadIds : threads.th[t].raised = "none"
    /\ KeyA \notin DOMAIN store
    /\ KeyA \notin DOMAIN expirations
    /\ Outcome \notin SequentialOutcomes

====
